---- MODULE Spec2Model ----
(***************************************************************************)
(* Model of src/src/steps.rs: the post-installation steps that inspect the *)
(* GPT of an output image (get_output_image_partition_size), shrink the    *)
(* image (shrink_output_image) and repair its secondary GPT                *)
(* (repair_secondary_gpt).                                                 *)
(*                                                                         *)
(* Text is modelled as tuples of one-character strings so that trimming,   *)
(* whitespace splitting, u64 parsing and decimal formatting are computed   *)
(* the way the Rust code computes them.  u64 is modelled with a word of    *)
(* WordBits bits; the arithmetic of shrink_output_image is carried out in  *)
(* that width, with both outcomes a Rust build can produce on overflow     *)
(* (panic with overflow checks, wrap-around without).                      *)
(***************************************************************************)
EXTENDS Integers, Sequences, FiniteSets, TLC

(* ------------------------------ bounds --------------------------------- *)
\* width of the machine word standing for u64
WordBits == 8
\* largest number of lines in the captured 'sgdisk -p' listing
MaxLines == 3

\* sectors reserved after the last partition for the secondary GPT
SecondaryGptSectors == 34

Modulus == 2 ^ WordBits
U64Max == Modulus - 1

(* --------------------------- text primitives --------------------------- *)
DigitChars == <<"0", "1", "2", "3", "4", "5", "6", "7", "8", "9">>

\* char::is_ascii_digit
IsAsciiDigit(c) == \E i \in 1..10 : DigitChars[i] = c

DigitVal(c) == (CHOOSE i \in 1..10 : DigitChars[i] = c) - 1

\* char::is_whitespace, for the whitespace the listings contain
IsWhitespace(c) == c \in {" ", "\t"}

\* str::trim_start
RECURSIVE trim_start(_)
trim_start(s) ==
    IF s = <<>> THEN <<>>
    ELSE IF IsWhitespace(Head(s)) THEN trim_start(Tail(s))
    ELSE s

\* str::split_whitespace: the maximal runs of non-whitespace, in order
RECURSIVE SplitFrom(_, _, _)
SplitFrom(s, cur, acc) ==
    IF s = <<>> THEN (IF cur = <<>> THEN acc ELSE Append(acc, cur))
    ELSE IF IsWhitespace(Head(s))
         THEN SplitFrom(Tail(s), <<>>, IF cur = <<>> THEN acc ELSE Append(acc, cur))
         ELSE SplitFrom(Tail(s), Append(cur, Head(s)), acc)

split_whitespace(s) == SplitFrom(s, <<>>, <<>>)

\* the value a failed parse / an absent Option is represented by
None == -1

\* the digit loop of u64::from_str: checked multiply by 10 and checked add
RECURSIVE ParseDigits(_, _)
ParseDigits(s, acc) ==
    IF s = <<>> THEN acc
    ELSE IF ~IsAsciiDigit(Head(s)) THEN None
    ELSE IF acc * 10 + DigitVal(Head(s)) > U64Max THEN None
    ELSE ParseDigits(Tail(s), acc * 10 + DigitVal(Head(s)))

\* str::parse::<u64>: an optional leading '+', then one or more digits
parse_u64(s) ==
    IF s = <<>> THEN None
    ELSE LET digits == IF Head(s) = "+" THEN Tail(s) ELSE s
         IN  IF digits = <<>> THEN None ELSE ParseDigits(digits, 0)

\* u64::to_string
RECURSIVE to_string(_)
to_string(n) ==
    IF n < 10 THEN <<DigitChars[n + 1]>>
    ELSE Append(to_string(n \div 10), DigitChars[(n % 10) + 1])


(* ------------------ get_output_image_partition_size -------------------- *)
\* a line is a partition row iff its trimmed text starts with a digit
IsPartitionRow(trimmed) == trimmed # <<>> /\ IsAsciiDigit(Head(trimmed))

\* Iterator::nth(2) over the columns: the Option holding the third column,
\* as a sequence of at most one element
EndSectorColumn(cols) == IF Len(cols) >= 3 THEN <<cols[3]>> ELSE <<>>

\* "partition line '{line}' does not have an end sector column"
MissingColumnError(line, trimmed) ==
    [err |-> TRUE, kind |-> "MissingEndSectorColumn", line |-> line, max |-> None]

MalformedNumberTrimmed(line, trimmed) ==
    [err |-> TRUE, kind |-> "MalformedNumber", line |-> trimmed, max |-> None]

\* "parsing end sector from partition line '{line}'"
MalformedNumberError(line, trimmed) ==
    [err |-> TRUE, kind |-> "MalformedNumber", line |-> line, max |-> None]

UpdateMaxLastRow(max_end_sector, end_sector) == end_sector

\* Some(match max_end_sector { Some(prev) => prev.max(end_sector), None => end_sector })
UpdateMax(max_end_sector, end_sector) ==
    IF max_end_sector = None THEN end_sector
    ELSE IF max_end_sector >= end_sector THEN max_end_sector ELSE end_sector

EndSectorOfRowAllColumns(line, trimmed) ==
    LET cols == split_whitespace(trimmed)
    IN  IF EndSectorColumn(cols) = <<>> THEN MissingColumnError(line, trimmed)
        ELSE IF \E i \in 1..3 : parse_u64(cols[i]) = None
             THEN MalformedNumberError(line, trimmed)
        ELSE [err |-> FALSE, kind |-> "Ok", line |-> line, max |-> parse_u64(cols[3])]

\* the body of the loop for one partition row: the end sector, or the error
EndSectorOfRow(line, trimmed) ==
    LET cols == split_whitespace(trimmed)
        col  == EndSectorColumn(cols)
    IN  IF col = <<>> THEN MissingColumnError(line, trimmed)
        ELSE IF parse_u64(col[1]) = None THEN MalformedNumberError(line, trimmed)
        ELSE [err |-> FALSE, kind |-> "Ok", line |-> line, max |-> parse_u64(col[1])]

\* the for loop over output_str.lines(), from the running maximum max_end_sector
RECURSIVE ScanLines(_, _)
ScanLines(lines, max_end_sector) ==
    IF lines = <<>>
    THEN [err |-> FALSE, kind |-> "Ok", line |-> <<>>, max |-> max_end_sector]
    ELSE LET line    == Head(lines)
             trimmed == trim_start(line)
         IN  IF ~IsPartitionRow(trimmed) THEN ScanLines(Tail(lines), max_end_sector)
             ELSE LET row == EndSectorOfRow(line, trimmed)
                  IN  IF row.err THEN row
                      ELSE ScanLines(Tail(lines), UpdateMax(max_end_sector, row.max))

GeometryOk(sector_size, last_sector) ==
    [ok |-> TRUE, kind |-> "Ok", line |-> <<>>, path |-> <<>>,
     sector_size |-> sector_size, last_sector |-> last_sector]

GeometryErr(kind, line, path) ==
    [ok |-> FALSE, kind |-> kind, line |-> line, path |-> path,
     sector_size |-> <<>>, last_sector |-> <<>>]

FinishScanZeroDefault(path, sector_size, scan) ==
    IF scan.err THEN GeometryErr(scan.kind, scan.line, <<>>)
    ELSE GeometryOk(sector_size, to_string(IF scan.max = None THEN 0 ELSE scan.max))

\* the '?' on a row error, max_end_sector.ok_or_else(..)? and the Ok((..)) return
FinishScan(path, sector_size, scan) ==
    IF scan.err THEN GeometryErr(scan.kind, scan.line, <<>>)
    ELSE IF scan.max = None THEN GeometryErr("NoPartitionsFound", <<>>, path)
    ELSE GeometryOk(sector_size, to_string(scan.max))


(* ------------------------- shrink_output_image ------------------------- *)
\* the outcome of the size computation when an overflow check panics
OverflowPanic == -2

\* sector_size * last_sector + (34 * sector_size), as a mathematical integer
ExactDiskSize(sector_size, last_sector) ==
    sector_size * last_sector + SecondaryGptSectors * sector_size

\* does one of the two multiplications or the addition leave the u64 range
Overflows(sector_size, last_sector) ==
    \/ sector_size * last_sector > U64Max
    \/ SecondaryGptSectors * sector_size > U64Max
    \/ ExactDiskSize(sector_size, last_sector) > U64Max

\* the values new_disk_size can take: the exact one when nothing overflows;
\* otherwise a panic (overflow checks on) or the wrapped value (checks off)
NewDiskSizes(sector_size, last_sector) ==
    IF Overflows(sector_size, last_sector)
    THEN {OverflowPanic,
          (((sector_size * last_sector) % Modulus)
             + ((SecondaryGptSectors * sector_size) % Modulus)) % Modulus}
    ELSE {ExactDiskSize(sector_size, last_sector)}

Str_resize == <<"r", "e", "s", "i", "z", "e">>
Str_shrink == <<"-", "-", "s", "h", "r", "i", "n", "k">>
Str_f      == <<"-", "f">>
Str_raw    == <<"r", "a", "w">>
Str_p      == <<"-", "p">>
Str_e      == <<"-", "e">>

\* vec!["resize", "--shrink", "-f", "raw", image_path, &new_disk_size]
FlaggedArgs(path, new_disk_size) ==
    <<Str_resize, Str_shrink, Str_f, Str_raw, path, new_disk_size>>

\* Vec::remove(i) for the 0-based index i
VecRemove(v, i) == SubSeq(v, 1, i) \o SubSeq(v, i + 2, Len(v))

RemoveFormatFlag(a) == VecRemove(a, 2)

\* args.remove(1), which the assertion requires to be "--shrink"
RemoveShrinkFlag(a) == VecRemove(a, 1)

ShrinkOk == [ok |-> TRUE, kind |-> "Ok", cmd |-> 0]
ShrinkErr(kind, cmd) == [ok |-> FALSE, kind |-> kind, cmd |-> cmd]
ShrinkNone == [ok |-> FALSE, kind |-> "None", cmd |-> 0]

\* the command runner's result for the cmd-th command issued: success, or
\* the error that reports the failed command
run_command_check_status(succeeded, cmd) ==
    IF succeeded THEN ShrinkOk ELSE ShrinkErr("CommandFailed", cmd)

AlwaysFallThrough(succeeded) == FALSE

\* if run_command_check_status(..).is_ok() { return Ok(()) }
ReturnsAfterFlagged(succeeded) == succeeded

FallbackResultIgnored(succeeded, cmd) == ShrinkOk

FallbackResultOfFlagged(succeeded, cmd) ==
    run_command_check_status(succeeded, cmd - 1)

\* run_command_check_status(..).map(|_| ()): the unflagged invocation's result
FallbackResult(succeeded, cmd) == run_command_check_status(succeeded, cmd)

(* ------------------------------- inputs -------------------------------- *)
\* image paths the pipeline is run on
ImagePaths == {<<"a", ".", "i", "m", "g">>, <<"b", ".", "i", "m", "g">>}

\* texts the "Sector size" lookup can hand back
SectorSizeTexts == {<<"1">>, <<"2">>, <<"8">>, <<"5", "1", "2", "B">>}

\* lines 'sgdisk -p' can print: headers, a blank line, partition rows
\* (indented or not, numbered with gaps, with trailing columns) and rows
\* that are damaged in one column
LinePool ==
    { <<"N", "r", " ", " ", "E", "n", "d">>,
      <<>>,
      <<"1", " ", "2", " ", "7">>,
      <<" ", " ", "2", " ", " ", "8", " ", "6", "0", " ">>,
      <<"4", "\t", "6", "1", " ", "9", " ", "x">>,
      <<"5", " ", "1", " ", "+", "0", "3", "0">>,
      <<" ", "3", " ", "4", " ", "9", "x">>,
      <<"1", "x", " ", "y", " ", "5">>,
      <<"6", " ", "7">>,
      <<"1", " ", "1", " ", "3", "0", "0">> }

RECURSIVE SeqsUpTo(_, _)
SeqsUpTo(S, n) ==
    IF n = 0 THEN {<<>>}
    ELSE LET shorter == SeqsUpTo(S, n - 1)
         IN  shorter \cup {Append(q, x) : q \in shorter, x \in S}

\* the listings: every sequence of at most MaxLines lines of the pool
Listings == SeqsUpTo(LinePool, MaxLines)

(* ------------------------------- state --------------------------------- *)
VARIABLES
    pc,            \* position of the pipeline / of the function being run
    image_path,    \* the image the pipeline works on
    sector_size,   \* get_output_image_partition_size: the looked-up text
    listing,       \* lines of the output the scan ran over
    scanned,       \* TRUE once the loop over the listing has run
    geometry,      \* result of get_output_image_partition_size
    args,          \* shrink_output_image: the args vector
    shrink,        \* result of shrink_output_image
    repair,        \* result of repair_secondary_gpt
    commands       \* external commands issued so far, with their outcome

vars == <<pc, image_path, sector_size, listing, scanned, geometry, args,
          shrink, repair, commands>>

GeometryNone ==
    [ok |-> FALSE, kind |-> "None", line |-> <<>>, path |-> <<>>,
     sector_size |-> <<>>, last_sector |-> <<>>]

\* a command handed to the command runner, and whether it exited with success
Command(program, a, succeeded) == [program |-> program, args |-> a, ok |-> succeeded]

\* outcomes of grep_command_for_row_and_column: the column text, or an error
LookupOutcomes ==
    {[ok |-> TRUE, kind |-> "Ok", text |-> t] : t \in SectorSizeTexts}
      \cup {[ok |-> FALSE, kind |-> k, text |-> <<>>] :
               k \in {"CommandFailed", "RowNotFound", "ColumnOutOfRange"}}

\* the order in which the caller runs the steps; an error ends the run
AfterGeometry(result) == IF result.ok THEN "shrink" ELSE "aborted"
AfterShrink(result) == IF result.ok THEN "repair" ELSE "aborted"
AfterRepair(succeeded) == IF succeeded THEN "done" ELSE "aborted"

Init ==
    /\ pc = "sector_size"
    /\ image_path \in ImagePaths
    /\ sector_size = <<>>
    /\ listing = <<>>
    /\ scanned = FALSE
    /\ geometry = GeometryNone
    /\ args = <<>>
    /\ shrink = ShrinkNone
    /\ repair = "None"
    /\ commands = <<>>

\* get_output_image_partition_size, up to the "Sector size" lookup
LookupSectorSize ==
    /\ pc = "sector_size"
    /\ \E out \in LookupOutcomes :
         /\ commands' = Append(commands,
                Command("sgdisk", <<Str_p, image_path>>, out.kind # "CommandFailed"))
         /\ IF out.ok
            THEN /\ sector_size' = out.text
                 /\ pc' = "list"
                 /\ UNCHANGED geometry
            ELSE /\ geometry' = GeometryErr(out.kind, <<>>, <<>>)
                 /\ pc' = AfterGeometry(geometry')
                 /\ UNCHANGED sector_size
    /\ UNCHANGED <<image_path, listing, scanned, args, shrink, repair>>

\* get_output_image_partition_size, from the listing command to the return
ScanPartitions ==
    /\ pc = "list"
    /\ \E succeeded \in BOOLEAN, out \in Listings :
         /\ commands' = Append(commands,
                Command("sgdisk", <<Str_p, image_path>>, succeeded))
         /\ IF succeeded
            THEN /\ listing' = out
                 /\ scanned' = TRUE
                 /\ geometry' = FinishScan(image_path, sector_size, ScanLines(out, None))
            ELSE /\ geometry' = GeometryErr("CommandFailed", <<>>, <<>>)
                 /\ UNCHANGED <<listing, scanned>>
    /\ pc' = AfterGeometry(geometry')
    /\ UNCHANGED <<image_path, sector_size, args, shrink, repair>>

\* shrink_output_image, up to the outcome of the invocation with --shrink
ShrinkFlagged ==
    /\ pc = "shrink"
    /\ LET ss == parse_u64(geometry.sector_size)
           ls == parse_u64(geometry.last_sector)
       IN  IF ss = None \/ ls = None
           THEN /\ shrink' = ShrinkErr(IF ss = None THEN "ParseSectorSize"
                                       ELSE "ParseLastSector", 0)
                /\ pc' = AfterShrink(shrink')
                /\ UNCHANGED <<args, commands>>
           ELSE \E new_disk_size \in NewDiskSizes(ss, ls), succeeded \in BOOLEAN :
                  IF new_disk_size = OverflowPanic
                  THEN /\ shrink' = ShrinkErr("Panic", 0)
                       /\ pc' = "panicked"
                       /\ UNCHANGED <<args, commands>>
                  ELSE /\ args' = FlaggedArgs(image_path, to_string(new_disk_size))
                       /\ commands' = Append(commands,
                              Command("qemu-img", args', succeeded))
                       /\ IF ReturnsAfterFlagged(succeeded)
                          THEN /\ shrink' = ShrinkOk
                               /\ pc' = AfterShrink(shrink')
                          ELSE /\ pc' = "shrink_fallback"
                               /\ UNCHANGED shrink
    /\ UNCHANGED <<image_path, sector_size, listing, scanned, geometry, repair>>

\* shrink_output_image, from the assertion to the return
ShrinkFallback ==
    /\ pc = "shrink_fallback"
    /\ IF args[2] # Str_shrink
       THEN /\ shrink' = ShrinkErr("Panic", 0)
            /\ pc' = "panicked"
            /\ UNCHANGED <<args, commands>>
       ELSE \E succeeded \in BOOLEAN :
              /\ args' = RemoveShrinkFlag(args)
              /\ commands' = Append(commands, Command("qemu-img", args', succeeded))
              /\ shrink' = FallbackResult(succeeded, Len(commands'))
              /\ pc' = AfterShrink(shrink')
    /\ UNCHANGED <<image_path, sector_size, listing, scanned, geometry, repair>>

\* repair_secondary_gpt
RepairSecondaryGpt ==
    /\ pc = "repair"
    /\ \E succeeded \in BOOLEAN :
         /\ commands' = Append(commands,
                Command("sgdisk", <<Str_e, image_path>>, succeeded))
         /\ repair' = IF succeeded THEN "Ok" ELSE "CommandFailed"
         /\ pc' = AfterRepair(succeeded)
    /\ UNCHANGED <<image_path, sector_size, listing, scanned, geometry, args, shrink>>

Next ==
    \/ LookupSectorSize
    \/ ScanPartitions
    \/ ShrinkFlagged
    \/ ShrinkFallback
    \/ RepairSecondaryGpt

Spec == Init /\ [][Next]_vars


(* --------------------------- derived notions --------------------------- *)
\* the 'qemu-img resize' and 'sgdisk -e' invocations, in the order issued
ResizeCommands == SelectSeq(commands, LAMBDA c : c.program = "qemu-img")
RepairIndexes ==
    {i \in 1..Len(commands) :
        commands[i].program = "sgdisk" /\ commands[i].args[1] = Str_e}

\* the partition rows of a listing, and what their end-sector column holds
RowIndexes(l) == {i \in 1..Len(l) : IsPartitionRow(trim_start(l[i]))}
Columns(line) == split_whitespace(trim_start(line))
HasEndSector(line) == Len(Columns(line)) >= 3
EndSectorValue(line) == parse_u64(Columns(line)[3])
WellFormedRow(line) == HasEndSector(line) /\ EndSectorValue(line) # None
EndSectors(l) == {EndSectorValue(l[i]) : i \in RowIndexes(l)}
SetMax(S) == CHOOSE m \in S : \A x \in S : x <= m


C2_ReturnsMaxEndSector ==
    (scanned /\ geometry.ok) =>
        /\ RowIndexes(listing) # {}
        /\ \A i \in RowIndexes(listing) : WellFormedRow(listing[i])
        /\ geometry.last_sector = to_string(SetMax(EndSectors(listing)))

\* C2 witness: three partition rows, the middle one holding the largest
\* end sector, and the scan returned it.
C2_Witness ==
    /\ scanned /\ geometry.ok
    /\ Len(listing) = 3 /\ RowIndexes(listing) = {1, 2, 3}
    /\ EndSectorValue(listing[2]) > EndSectorValue(listing[1])
    /\ EndSectorValue(listing[2]) > EndSectorValue(listing[3])
    /\ parse_u64(geometry.last_sector) = EndSectorValue(listing[2])

\* C3: a listing without partition rows makes the geometry step fail with
\* NoPartitionsFound; no last sector is returned and no resize is issued.
C3_NoPartitionsFound ==
    (scanned /\ RowIndexes(listing) = {}) =>
        /\ geometry = GeometryErr("NoPartitionsFound", <<>>, image_path)
        /\ pc = "aborted"
        /\ ResizeCommands = <<>>

\* C3 witness: a header-only listing was scanned and rejected.
C3_Witness ==
    /\ scanned /\ Len(listing) >= 1 /\ RowIndexes(listing) = {}
    /\ geometry.kind = "NoPartitionsFound"


\* the shrink has issued both resize invocations, with these outcomes
TwoResizes(first, second) ==
    /\ Len(ResizeCommands) = 2
    /\ ResizeCommands[1].ok = first
    /\ ResizeCommands[2].ok = second

\* C4: when the flagged resize fails and the unflagged one succeeds, the
\* shrink returns success, and the second invocation's arguments are the
\* first's, in the same order, with only "--shrink" taken out.
C4_FallbackSameArguments ==
    TwoResizes(FALSE, TRUE) =>
        LET a == ResizeCommands[1].args
            b == ResizeCommands[2].args
        IN  /\ shrink = ShrinkOk
            /\ a[2] = Str_shrink
            /\ b = <<a[1]>> \o SubSeq(a, 3, Len(a))
            /\ \A k \in 1..Len(b) : b[k] # Str_shrink
            /\ b[4] = image_path

\* C4 witness: the fallback ran and succeeded after the flagged failure.
C4_Witness == TwoResizes(FALSE, TRUE) /\ shrink.ok /\ pc \in {"repair", "done", "aborted"}

\* C5 as stated: when both resize invocations fail the shrink fails with a
\* ShrinkFailed error.
C5_ShrinkFailedKind ==
    TwoResizes(FALSE, FALSE) => (~shrink.ok /\ shrink.kind = "ShrinkFailed")

\* C5 amended: when both resize invocations fail the shrink fails with the
\* error of the unflagged (second) invocation, passed on unchanged, and the
\* run ends there with exactly two resize invocations issued.
C5_FallbackErrorPropagated ==
    TwoResizes(FALSE, FALSE) =>
        /\ shrink = run_command_check_status(FALSE, Len(commands))
        /\ commands[shrink.cmd] = ResizeCommands[2]
        /\ pc = "aborted"
        /\ ~ENABLED Next

\* C5 witness: both resize invocations failed and the shrink returned an error.
C5_Witness == TwoResizes(FALSE, FALSE) /\ ~shrink.ok /\ shrink.kind = "CommandFailed"

\* C6: the 'sgdisk -e' repair is issued at most once, only when the shrink
\* of the same image has returned success, and the last resize invocation
\* issued before it succeeded.
C6_RepairAfterSuccessfulShrink ==
    /\ Cardinality(RepairIndexes) <= 1
    /\ \A i \in RepairIndexes :
         /\ shrink = ShrinkOk
         /\ \E j \in 1..(i - 1) :
              /\ commands[j].program = "qemu-img"
              /\ commands[j].ok
              /\ commands[j].args[Len(commands[j].args) - 1] = commands[i].args[2]
              /\ \A k \in (j + 1)..(i - 1) : commands[k].program # "qemu-img"
    /\ (pc = "repair") => (shrink = ShrinkOk /\ RepairIndexes = {})

\* C6 witness: the repair was issued after a shrink that needed the fallback.
C6_Witness == RepairIndexes # {} /\ Len(ResizeCommands) = 2 /\ repair = "Ok"

\* the first partition row of the listing that the scan cannot accept
FirstBadRow(l) ==
    CHOOSE i \in RowIndexes(l) :
        /\ ~WellFormedRow(l[i])
        /\ \A j \in RowIndexes(l) : j < i => WellFormedRow(l[j])

\* C7: a partition row whose end-sector column is not a valid u64 number is
\* never skipped: the scan fails, and when that row is the first row the
\* scan cannot accept, the error is the malformed-number error carrying the
\* raw line, leading whitespace included.
C7_MalformedEndSector ==
    (scanned /\ \E i \in RowIndexes(listing) :
                    HasEndSector(listing[i]) /\ EndSectorValue(listing[i]) = None) =>
        /\ ~geometry.ok
        /\ pc = "aborted"
        /\ HasEndSector(listing[FirstBadRow(listing)]) =>
             geometry = GeometryErr("MalformedNumber",
                                    listing[FirstBadRow(listing)], <<>>)

\* C7 witness: an indented row with a malformed end sector, after a good
\* row, was reported with its leading whitespace.
C7_Witness ==
    /\ scanned /\ geometry.kind = "MalformedNumber"
    /\ Len(listing) >= 2 /\ WellFormedRow(listing[1])
    /\ geometry.line = listing[2]
    /\ trim_start(geometry.line) # geometry.line

\* some column of the first three of a partition row is not a u64 number
NonNumericColumn(line) ==
    \E k \in 1..3 : k <= Len(Columns(line)) /\ parse_u64(Columns(line)[k]) = None

\* C8 as stated: a non-numeric value in any of the three columns of a
\* partition row is a malformed-row error carrying that line.
C8_EveryColumnParsed ==
    (scanned /\ \E i \in RowIndexes(listing) : NonNumericColumn(listing[i])) =>
        /\ ~geometry.ok
        /\ geometry.kind = "MalformedNumber"
        /\ \E i \in RowIndexes(listing) :
             NonNumericColumn(listing[i]) /\ geometry.line = listing[i]

\* C8 amended: only the end-sector column is parsed.  A malformed-number
\* error always carries, verbatim, a partition row whose end-sector column
\* is not a u64 number, and a listing whose partition rows all have a
\* numeric end sector is accepted whatever columns 0 and 1 hold.
C8_OnlyEndSectorParsed ==
    scanned =>
        /\ (geometry.kind = "MalformedNumber") =>
              \E i \in RowIndexes(listing) :
                  /\ geometry.line = listing[i]
                  /\ HasEndSector(listing[i])
                  /\ EndSectorValue(listing[i]) = None
        /\ (RowIndexes(listing) # {}
              /\ \A i \in RowIndexes(listing) : WellFormedRow(listing[i]))
             => geometry.ok

\* C8 witness: a row with non-numeric index and start columns was accepted
\* and its end sector returned.
C8_Witness ==
    /\ scanned /\ geometry.ok
    /\ \E i \in RowIndexes(listing) :
         /\ parse_u64(Columns(listing[i])[1]) = None
         /\ parse_u64(Columns(listing[i])[2]) = None
         /\ geometry.last_sector = to_string(EndSectorValue(listing[i]))

HasShrinkFlag(c) == \E k \in 1..Len(c.args) : c.args[k] = Str_shrink

\* C9: at most two resize invocations are issued; the first carries
\* "--shrink"; an unflagged one is issued only as the second, after the
\* flagged one failed; a flagged success ends the shrink with one invocation.
C9_FallbackOnlyAfterFlaggedFailure ==
    LET r == ResizeCommands
    IN  /\ Len(r) <= 2
        /\ Len(r) >= 1 => HasShrinkFlag(r[1])
        /\ Len(r) = 2 => (~r[1].ok /\ ~HasShrinkFlag(r[2]))
        /\ (Len(r) >= 1 /\ r[1].ok) => (Len(r) = 1 /\ shrink = ShrinkOk)
        /\ (pc = "shrink_fallback") => (Len(r) = 1 /\ ~r[1].ok)

\* C9 witness: the flagged invocation succeeded and the shrink returned.
C9_Witness ==
    /\ Len(ResizeCommands) = 1 /\ ResizeCommands[1].ok
    /\ shrink = ShrinkOk /\ pc = "repair"

\* C10: when the exact size sector_size * last_sector + 34 * sector_size
\* does not fit in the machine word, no resize invocation is made.
C10_NoWrappedResize ==
    (geometry.ok /\ parse_u64(geometry.sector_size) # None
       /\ ExactDiskSize(parse_u64(geometry.sector_size),
                        parse_u64(geometry.last_sector)) > U64Max)
      => ResizeCommands = <<>>

====
